---- MODULE Spec2Model ----
(***************************************************************************)
(* Breakout-strategy backtester: BreakoutStrategy (signal detection),      *)
(* TradeSimulator (exit state machine, compounding balance) and            *)
(* BacktestEngine (one run = processCandles, one simulated trade per       *)
(* signal, statistics).                                                    *)
(*                                                                         *)
(* Number representation.  JavaScript doubles are modelled as exact        *)
(* rationals held in integers:                                             *)
(*   - times are minutes since the epoch (openTime / 60000);               *)
(*   - candle prices are integers (price units);                           *)
(*   - the prices of a trade (entryPrice, stopLoss, takeProfit, exitPrice) *)
(*     are held multiplied by PriceScale(leverage) = 100 * leverage, the   *)
(*     common denominator of entry -/+ (percent / leverage / 100) * entry; *)
(*   - dollar amounts (balances, resultUSD, positionSize) are in           *)
(*     thousandths of a dollar, so that 2-decimal rounding is visible;     *)
(*   - resultPercent is in hundredths of a percent;                        *)
(*   - maxHours is held in minutes (hours * 60), so that --hours=1.5 is a  *)
(*     number of the model.                                                *)
(***************************************************************************)
EXTENDS Integers, Sequences, FiniteSets, TLC

\* ------------------------------------------------------------------ bounds
\* Longest candle sequence handed to runBacktest.
MaxBars == 4
\* Most runBacktest calls made on one engine.
MaxRuns == 2
\* Longest sequence of daily candles (one candle per calendar date).
MaxDays == 5

\* ------------------------------------------------------- program constants
\* moment(...).diff(..., 'hours'): minutes in one hour.
MinutesPerHour == 60
\* moment(...).format('YYYY-MM-DD'): minutes in one calendar day.
MinutesPerDay == 1440
\* MathUtils.round(x, 2): thousandths of a dollar in one cent.
MillsPerCent == 10

\* ------------------------------------------------------------------ inputs
\* Candle bodies (open, high, low, close) offered to the run.
Shapes ==
  { [open |-> 106, high |-> 106, low |-> 103, close |-> 105],
    [open |->  98, high |-> 106, low |->  95, close |-> 100],
    [open |-> 102, high |-> 106, low |->  97, close |-> 105],
    [open |-> 100, high |-> 103, low |->  99, close |-> 102] }

\* Open time of the first candle (23:00 of day 0) and the distances between
\* consecutive candles: the next hour, or the same hour of the next day
\* (missing candles are simply absent).
FirstOpenTime == 23 * MinutesPerHour
Gaps == {MinutesPerHour, MinutesPerDay}

\* Configurations: the defaults of the constructors, a second one given on
\* the command line (--capital=100.004 --leverage=2 --hours=2 --sl=10
\* --tp=10), and the defaults with --hours=0 (parseArguments stores whatever
\* parseFloat returns).  utcOffset is the offset of the process's time zone
\* from UTC in minutes (the TZ of the environment), here UTC itself.
Configs ==
  { [initialCapital |-> 100000, leverage |-> 5, maxHours |-> 4 * MinutesPerHour,
     stopLossPercent |-> 10, takeProfitPercent |-> 20, utcOffset |-> 0],
    [initialCapital |-> 100004, leverage |-> 2, maxHours |-> 2 * MinutesPerHour,
     stopLossPercent |-> 10, takeProfitPercent |-> 10, utcOffset |-> 0],
    [initialCapital |-> 100000, leverage |-> 5, maxHours |-> 0,
     stopLossPercent |-> 10, takeProfitPercent |-> 20, utcOffset |-> 0] }

VARIABLES
  candles,   \* the candle sequence given to every runBacktest call
  config,    \* constructor arguments of every engine, and the zone of the process
  eng        \* engine id -> BacktestEngine object (with its strategy and simulator)

vars == <<candles, config, eng>>

\* ----------------------------------------------------------------- helpers
SetMax(S) == CHOOSE x \in S : \A y \in S : y <= x
SetMin(S) == CHOOSE x \in S : \A y \in S : x <= y

\* An optional number: {} is null, {v} is the number v.
Null == {}
Some(v) == {v}
Val(m) == CHOOSE v \in m : TRUE
\* JavaScript's !x for a number or null.
Falsy(m) == m = Null \/ m = Some(0)

Abs(x) == IF x < 0 THEN -x ELSE x

RECURSIVE GCD(_, _)
GCD(a, b) == IF b = 0 THEN Abs(a) ELSE GCD(b, a % Abs(b))

\* The rational n/d (d > 0) in lowest terms.
Ratio(n, d) == LET g == GCD(n, d) IN [num |-> n \div g, den |-> d \div g]

\* floor((a * b + c) / d) for d > 0, computed without forming a * b.
MulDivFloor(a, b, c, d) == a * (b \div d) + (a * (b % d) + c) \div d

\* MathUtils.round(x, 2) of the amount a * b / den thousandths of a dollar
\* (den > 0), in thousandths: Math.round(x * 100) / 100 rounds to the nearest
\* cent, halves upwards.
Round2Mills(a, b, den) ==
  MillsPerCent * MulDivFloor(a, b, (MillsPerCent \div 2) * den, MillsPerCent * den)

\* MathUtils.round(x, 2) of num/den hundredths (den > 0), in hundredths.
Round2Hundredths(num, den) == (2 * num + den) \div (2 * den)

\* MathUtils.round(x, 0) of n * k / d (d > 0, k >= 0), computed without
\* forming n * k.
RoundScaled(n, k, d) == (n \div d) * k + (2 * (n % d) * k + d) \div (2 * d)

\* DateUtils.getDateOnly: the calendar date of a timestamp, as a day number
\* (the 'YYYY-MM-DD' strings sort as these numbers do).  moment formats in
\* the zone of the process.
getDateOnly(timestamp) == (timestamp + config.utcOffset) \div MinutesPerDay

\* ResultsExporter.getDateOnly: new Date(timestamp).toISOString() up to the
\* 'T', the calendar date in UTC.
ResultsExporter_getDateOnly(timestamp) == timestamp \div MinutesPerDay

\* DateUtils.getHoursDifference: whole hours from startTime to endTime.
getHoursDifference(startTime, endTime) ==
  IF endTime >= startTime
    THEN (endTime - startTime) \div MinutesPerHour
    ELSE -((startTime - endTime) \div MinutesPerHour)

\* DateUtils.shouldCloseByTime
shouldCloseByTime(entryTime, currentTime, maxHours) ==
  getHoursDifference(entryTime, currentTime) * MinutesPerHour >= maxHours

\* ------------------------------------------------------- BreakoutStrategy
\* The dates present in a candle sequence.
DatesOf(cs) == { getDateOnly(cs[i].openTime) : i \in 1..Len(cs) }

\* DateUtils.groupCandlesByDay: the candles of one date (as a set of indexes).
groupCandlesByDay(cs, date) ==
  { i \in 1..Len(cs) : getDateOnly(cs[i].openTime) = date }

DayHigh(cs, date) == SetMax({ cs[i].high : i \in groupCandlesByDay(cs, date) })
DayLow(cs, date)  == SetMin({ cs[i].low  : i \in groupCandlesByDay(cs, date) })

\* calculateDailyLevels that takes the previous levels from the calendar day
\* before, and null when that day has no candles.
calculateDailyLevels_CalendarPrevious(cs) ==
  [ date \in DatesOf(cs) |->
      [ currentHigh  |-> DayHigh(cs, date),
        currentLow   |-> DayLow(cs, date),
        previousHigh |-> IF date - 1 \in DatesOf(cs)
                           THEN Some(DayHigh(cs, date - 1)) ELSE Null,
        previousLow  |-> IF date - 1 \in DatesOf(cs)
                           THEN Some(DayLow(cs, date - 1)) ELSE Null ] ]

\* BreakoutStrategy.calculateDailyLevels: date -> levels; the previous date is
\* the one just before in the sorted list of dates that have candles.
calculateDailyLevels(cs) ==
  [ date \in DatesOf(cs) |->
      LET earlier == { d \in DatesOf(cs) : d < date }
      IN  [ currentHigh  |-> DayHigh(cs, date),
            currentLow   |-> DayLow(cs, date),
            previousHigh |-> IF earlier = {} THEN Null
                             ELSE Some(DayHigh(cs, SetMax(earlier))),
            previousLow  |-> IF earlier = {} THEN Null
                             ELSE Some(DayLow(cs, SetMax(earlier))) ] ]

\* BreakoutStrategy.detectBreakout: Null, or a breakout whose direction may be
\* "none" (a breakout whose body straddles or touches the level).
NoBreakout == [found |-> FALSE, type |-> "none", direction |-> "none",
               reason |-> "none", entryPrice |-> 0]

\* detectBreakout that consults the low branch when the high branch assigns
\* no direction.
detectBreakout_LowFallback(candle, dailyHigh, dailyLow) ==
  IF Falsy(dailyHigh) \/ Falsy(dailyLow) THEN NoBreakout
  ELSE LET H == Val(dailyHigh)
           L == Val(dailyLow)
           highDirected == \/ candle.open > H /\ candle.close > H
                           \/ candle.open < H /\ candle.close < H
       IN  IF candle.high > H /\ (highDirected \/ candle.low >= L)
             THEN [ found |-> TRUE, type |-> "BREAKOUT_HIGH",
                    direction |-> IF candle.open > H /\ candle.close > H THEN "LONG"
                                  ELSE IF candle.open < H /\ candle.close < H THEN "SHORT"
                                  ELSE "none",
                    reason |-> IF candle.open > H /\ candle.close > H
                                 THEN "Body above previous high"
                               ELSE IF candle.open < H /\ candle.close < H
                                 THEN "Body below previous high, wick touched above"
                               ELSE "none",
                    entryPrice |-> candle.close ]
           ELSE IF candle.low < L
             THEN [ found |-> TRUE, type |-> "BREAKOUT_LOW",
                    direction |-> IF candle.open < L /\ candle.close < L THEN "SHORT"
                                  ELSE IF candle.open > L /\ candle.close > L THEN "LONG"
                                  ELSE "none",
                    reason |-> IF candle.open < L /\ candle.close < L
                                 THEN "Body below previous low"
                               ELSE IF candle.open > L /\ candle.close > L
                                 THEN "Body above previous low, wick touched below"
                               ELSE "none",
                    entryPrice |-> candle.close ]
           ELSE NoBreakout

\* detectBreakout whose body tests accept an open or close on the level.
detectBreakout_Inclusive(candle, dailyHigh, dailyLow) ==
  IF Falsy(dailyHigh) \/ Falsy(dailyLow) THEN NoBreakout
  ELSE LET H == Val(dailyHigh)
           L == Val(dailyLow)
       IN  IF candle.high > H
             THEN [ found |-> TRUE, type |-> "BREAKOUT_HIGH",
                    direction |-> IF candle.open >= H /\ candle.close >= H THEN "LONG"
                                  ELSE IF candle.open <= H /\ candle.close <= H THEN "SHORT"
                                  ELSE "none",
                    reason |-> IF candle.open >= H /\ candle.close >= H
                                 THEN "Body above previous high"
                               ELSE IF candle.open <= H /\ candle.close <= H
                                 THEN "Body below previous high, wick touched above"
                               ELSE "none",
                    entryPrice |-> candle.close ]
           ELSE IF candle.low < L
             THEN [ found |-> TRUE, type |-> "BREAKOUT_LOW",
                    direction |-> IF candle.open <= L /\ candle.close <= L THEN "SHORT"
                                  ELSE IF candle.open >= L /\ candle.close >= L THEN "LONG"
                                  ELSE "none",
                    reason |-> IF candle.open <= L /\ candle.close <= L
                                 THEN "Body below previous low"
                               ELSE IF candle.open >= L /\ candle.close >= L
                                 THEN "Body above previous low, wick touched below"
                               ELSE "none",
                    entryPrice |-> candle.close ]
           ELSE NoBreakout

detectBreakout(candle, dailyHigh, dailyLow) ==
  IF Falsy(dailyHigh) \/ Falsy(dailyLow) THEN NoBreakout
  ELSE LET H == Val(dailyHigh)
           L == Val(dailyLow)
       IN  IF candle.high > H
             THEN [ found |-> TRUE, type |-> "BREAKOUT_HIGH",
                    direction |-> IF candle.open > H /\ candle.close > H THEN "LONG"
                                  ELSE IF candle.open < H /\ candle.close < H THEN "SHORT"
                                  ELSE "none",
                    reason |-> IF candle.open > H /\ candle.close > H
                                 THEN "Body above previous high"
                               ELSE IF candle.open < H /\ candle.close < H
                                 THEN "Body below previous high, wick touched above"
                               ELSE "none",
                    entryPrice |-> candle.close ]
           ELSE IF candle.low < L
             THEN [ found |-> TRUE, type |-> "BREAKOUT_LOW",
                    direction |-> IF candle.open < L /\ candle.close < L THEN "SHORT"
                                  ELSE IF candle.open > L /\ candle.close > L THEN "LONG"
                                  ELSE "none",
                    reason |-> IF candle.open < L /\ candle.close < L
                                 THEN "Body below previous low"
                               ELSE IF candle.open > L /\ candle.close > L
                                 THEN "Body above previous low, wick touched below"
                               ELSE "none",
                    entryPrice |-> candle.close ]
           ELSE NoBreakout

\* shouldOpenTrade that enters at the broken level instead of the close.
shouldOpenTrade_AtLevel(dailyLevels, candle, currentDate, todayTrades) ==
  IF todayTrades > 0 THEN {}
  ELSE IF currentDate \notin DOMAIN dailyLevels THEN {}
  ELSE LET dayData == dailyLevels[currentDate]
       IN  IF Falsy(dayData.previousHigh) \/ Falsy(dayData.previousLow) THEN {}
           ELSE LET breakout == detectBreakout(candle, dayData.previousHigh,
                                               dayData.previousLow)
                IN  IF breakout.found /\ breakout.direction # "none"
                      THEN { [ date       |-> currentDate,
                               type       |-> breakout.type,
                               direction  |-> breakout.direction,
                               entryPrice |-> IF breakout.type = "BREAKOUT_HIGH"
                                                THEN Val(dayData.previousHigh)
                                                ELSE Val(dayData.previousLow),
                               dailyHigh  |-> Val(dayData.previousHigh),
                               dailyLow   |-> Val(dayData.previousLow),
                               reason     |-> breakout.reason,
                               candle     |-> candle ] }
                      ELSE {}

\* BreakoutStrategy.shouldOpenTrade: the set holding the signal, or {} (null).
\* todayTrades is the number of trades the caller passes for the date.
shouldOpenTrade(dailyLevels, candle, currentDate, todayTrades) ==
  IF todayTrades > 0 THEN {}
  ELSE IF currentDate \notin DOMAIN dailyLevels THEN {}
  ELSE LET dayData == dailyLevels[currentDate]
       IN  IF Falsy(dayData.previousHigh) \/ Falsy(dayData.previousLow) THEN {}
           ELSE LET breakout == detectBreakout(candle, dayData.previousHigh,
                                               dayData.previousLow)
                IN  IF breakout.found /\ breakout.direction # "none"
                      THEN { [ date       |-> currentDate,
                               type       |-> breakout.type,
                               direction  |-> breakout.direction,
                               entryPrice |-> breakout.entryPrice,
                               dailyHigh  |-> Val(dayData.previousHigh),
                               dailyLow   |-> Val(dayData.previousLow),
                               reason     |-> breakout.reason,
                               candle     |-> candle ] }
                      ELSE {}

\* The loop of BreakoutStrategy.processCandles from candle i on: signals
\* found so far, dailyTrades the dates already marked.
RECURSIVE ProcessFrom(_, _, _, _, _)
ProcessFrom(cs, dailyLevels, i, signals, dailyTrades) ==
  IF i > Len(cs) THEN signals
  ELSE LET candle == cs[i]
           currentDate == getDateOnly(candle.openTime)
       IN  IF currentDate \in dailyTrades
             THEN ProcessFrom(cs, dailyLevels, i + 1, signals, dailyTrades)
             ELSE LET signal == shouldOpenTrade(dailyLevels, candle, currentDate, 0)
                  IN  IF signal # {}
                        THEN ProcessFrom(cs, dailyLevels, i + 1,
                                         Append(signals, Val(signal)),
                                         dailyTrades \cup {currentDate})
                        ELSE ProcessFrom(cs, dailyLevels, i + 1, signals, dailyTrades)

\* processCandles that does not mark the date of an emitted signal.
processCandles_NoMark(cs) ==
  LET dailyLevels == calculateDailyLevels(cs)
      hits == { i \in 1..Len(cs) :
                  shouldOpenTrade(dailyLevels, cs[i], getDateOnly(cs[i].openTime), 0) # {} }
      RECURSIVE Collect(_)
      Collect(i) ==
        IF i > Len(cs) THEN <<>>
        ELSE IF i \in hits
          THEN <<Val(shouldOpenTrade(dailyLevels, cs[i],
                                     getDateOnly(cs[i].openTime), 0))>> \o Collect(i + 1)
          ELSE Collect(i + 1)
  IN  Collect(1)

\* processCandles that marks the date at the first breakout, with or without
\* a direction.
processCandles_MarkOnBreakout(cs) ==
  LET dailyLevels == calculateDailyLevels(cs)
      Breaks(i) == LET lv == dailyLevels[getDateOnly(cs[i].openTime)]
                   IN  detectBreakout(cs[i], lv.previousHigh, lv.previousLow).found
      first == { i \in 1..Len(cs) :
                   /\ Breaks(i)
                   /\ \A j \in 1..(i - 1) :
                        getDateOnly(cs[j].openTime) = getDateOnly(cs[i].openTime)
                          => ~Breaks(j) }
      RECURSIVE Collect(_)
      Collect(i) ==
        IF i > Len(cs) THEN <<>>
        ELSE LET signal == shouldOpenTrade(dailyLevels, cs[i],
                                           getDateOnly(cs[i].openTime), 0)
             IN  IF i \in first /\ signal # {}
                   THEN <<Val(signal)>> \o Collect(i + 1)
                   ELSE Collect(i + 1)
  IN  Collect(1)

\* BreakoutStrategy.processCandles
processCandles(cs) == ProcessFrom(cs, calculateDailyLevels(cs), 1, <<>>, {})

\* --------------------------------------------------------------- MathUtils
\* Trade prices are candle prices multiplied by PriceScale(leverage).
PriceScale(leverage) == 100 * leverage

\* calculateStopLoss that takes riskPercent as a percentage of the price.
calculateStopLoss_NoLeverage(entryPrice, direction, leverage, riskPercent) ==
  LET priceChange == riskPercent * leverage * entryPrice
  IN  IF direction = "LONG"
        THEN entryPrice * PriceScale(leverage) - priceChange
        ELSE entryPrice * PriceScale(leverage) + priceChange

\* MathUtils.calculateStopLoss: entryPrice -/+ (riskPercent / leverage / 100)
\* * entryPrice, as a scaled price (entryPrice is a candle price).
calculateStopLoss(entryPrice, direction, leverage, riskPercent) ==
  LET priceChange == riskPercent * entryPrice
  IN  IF direction = "LONG"
        THEN entryPrice * PriceScale(leverage) - priceChange
        ELSE entryPrice * PriceScale(leverage) + priceChange

\* calculateTakeProfit that puts the target on the side of the stop loss.
calculateTakeProfit_StopSide(entryPrice, direction, leverage, profitPercent) ==
  LET priceChange == profitPercent * entryPrice
  IN  IF direction = "LONG"
        THEN entryPrice * PriceScale(leverage) - priceChange
        ELSE entryPrice * PriceScale(leverage) + priceChange

\* MathUtils.calculateTakeProfit, as a scaled price.
calculateTakeProfit(entryPrice, direction, leverage, profitPercent) ==
  LET priceChange == profitPercent * entryPrice
  IN  IF direction = "LONG"
        THEN entryPrice * PriceScale(leverage) + priceChange
        ELSE entryPrice * PriceScale(leverage) - priceChange

\* MathUtils.calculateTradeResultPercent: the price move in percent, as a
\* rational (both prices scaled alike, entryPrice > 0).
calculateTradeResultPercent(entryPrice, exitPrice, direction) ==
  IF direction = "LONG"
    THEN Ratio((exitPrice - entryPrice) * 100, entryPrice)
    ELSE Ratio((entryPrice - exitPrice) * 100, entryPrice)

\* ---------------------------------------------------------- TradeSimulator
\* TradeSimulator.constructor
NewSimulator(cfg) ==
  [ initialCapital    |-> cfg.initialCapital,
    leverage          |-> cfg.leverage,
    maxHours          |-> cfg.maxHours,
    stopLossPercent   |-> cfg.stopLossPercent,
    takeProfitPercent |-> cfg.takeProfitPercent,
    currentBalance    |-> cfg.initialCapital,
    trades            |-> <<>>,
    dailyResults      |-> <<>> ]

NoExit == [found |-> FALSE, price |-> 0, reason |-> "none"]

\* checkExitConditions that tests the stop loss and the take profit before the
\* time limit.
checkExitConditions_StopFirst(sim, candle, trade) ==
  LET scale == PriceScale(sim.leverage)
  IN  IF trade.direction = "LONG" /\ candle.low * scale <= trade.stopLoss
        THEN [found |-> TRUE, price |-> trade.stopLoss, reason |-> "SL"]
      ELSE IF trade.direction = "SHORT" /\ candle.high * scale >= trade.stopLoss
        THEN [found |-> TRUE, price |-> trade.stopLoss, reason |-> "SL"]
      ELSE IF trade.direction = "LONG" /\ candle.high * scale >= trade.takeProfit
        THEN [found |-> TRUE, price |-> trade.takeProfit, reason |-> "TP"]
      ELSE IF trade.direction = "SHORT" /\ candle.low * scale <= trade.takeProfit
        THEN [found |-> TRUE, price |-> trade.takeProfit, reason |-> "TP"]
      ELSE IF shouldCloseByTime(trade.entryTime, candle.openTime, sim.maxHours)
        THEN [found |-> TRUE, price |-> candle.close * scale, reason |-> "TIME"]
      ELSE NoExit

\* checkExitConditions that fills a stop loss or a take profit at the
\* candle's extreme instead of the level.
checkExitConditions_FillAtExtreme(sim, candle, trade) ==
  LET scale == PriceScale(sim.leverage)
  IN  IF shouldCloseByTime(trade.entryTime, candle.openTime, sim.maxHours)
        THEN [found |-> TRUE, price |-> candle.close * scale, reason |-> "TIME"]
      ELSE IF trade.direction = "LONG" /\ candle.low * scale <= trade.stopLoss
        THEN [found |-> TRUE, price |-> candle.low * scale, reason |-> "SL"]
      ELSE IF trade.direction = "SHORT" /\ candle.high * scale >= trade.stopLoss
        THEN [found |-> TRUE, price |-> candle.high * scale, reason |-> "SL"]
      ELSE IF trade.direction = "LONG" /\ candle.high * scale >= trade.takeProfit
        THEN [found |-> TRUE, price |-> candle.high * scale, reason |-> "TP"]
      ELSE IF trade.direction = "SHORT" /\ candle.low * scale <= trade.takeProfit
        THEN [found |-> TRUE, price |-> candle.low * scale, reason |-> "TP"]
      ELSE NoExit

\* TradeSimulator.checkExitConditions: TIME, then stop loss, then take profit.
checkExitConditions(sim, candle, trade) ==
  LET scale == PriceScale(sim.leverage)
  IN  IF shouldCloseByTime(trade.entryTime, candle.openTime, sim.maxHours)
        THEN [found |-> TRUE, price |-> candle.close * scale, reason |-> "TIME"]
      ELSE IF trade.direction = "LONG" /\ candle.low * scale <= trade.stopLoss
        THEN [found |-> TRUE, price |-> trade.stopLoss, reason |-> "SL"]
      ELSE IF trade.direction = "SHORT" /\ candle.high * scale >= trade.stopLoss
        THEN [found |-> TRUE, price |-> trade.stopLoss, reason |-> "SL"]
      ELSE IF trade.direction = "LONG" /\ candle.high * scale >= trade.takeProfit
        THEN [found |-> TRUE, price |-> trade.takeProfit, reason |-> "TP"]
      ELSE IF trade.direction = "SHORT" /\ candle.low * scale <= trade.takeProfit
        THEN [found |-> TRUE, price |-> trade.takeProfit, reason |-> "TP"]
      ELSE NoExit

\* calculateTradeResult on the initial capital instead of the running balance.
calculateTradeResult_InitialCapital(sim, entryPrice, exitPrice, direction) ==
  LET pricePercent == calculateTradeResultPercent(entryPrice, exitPrice, direction)
  IN  [ usd     |-> Round2Mills(pricePercent.num * sim.leverage, sim.initialCapital,
                                100 * pricePercent.den),
        percent |-> Round2Hundredths(pricePercent.num * sim.leverage * 100,
                                     pricePercent.den) ]

\* TradeSimulator.calculateTradeResult: usd = round(pricePercent / 100 *
\* currentBalance * leverage, 2), percent = round(pricePercent * leverage, 2).
calculateTradeResult(sim, entryPrice, exitPrice, direction) ==
  LET pricePercent == calculateTradeResultPercent(entryPrice, exitPrice, direction)
  IN  [ usd     |-> Round2Mills(pricePercent.num * sim.leverage, sim.currentBalance,
                                100 * pricePercent.den),
        percent |-> Round2Hundredths(pricePercent.num * sim.leverage * 100,
                                     pricePercent.den) ]

\* updateBalance that does not round the new balance.
updateBalance_NoRound(currentBalance, tradeResult) == currentBalance + tradeResult

\* TradeSimulator.updateBalance: add the result, round the balance to cents.
updateBalance(currentBalance, tradeResult) ==
  Round2Mills(1, currentBalance + tradeResult, 1)

\* TradeSimulator.recordDailyResult: the entry written under the signal's date
\* (currentBalance is the balance after updateBalance).
recordDailyResult(currentBalance, trade) ==
  [ tradeExecuted |-> TRUE,
    trade         |-> trade,
    balanceBefore |-> currentBalance - trade.resultUSD,
    balanceAfter  |-> currentBalance,
    dailyReturn   |-> trade.resultUSD ]

\* TradeSimulator.recordNoTradeDay: the entry of a day without trade (no
\* caller in the engine).
recordNoTradeDay(currentBalance) ==
  [ tradeExecuted |-> FALSE,
    reason        |-> "No breakout detected",
    balanceBefore |-> currentBalance,
    balanceAfter  |-> currentBalance,
    dailyReturn   |-> 0 ]

\* The first candle of remainingCandles (from index i on) with an exit
\* condition: the loop of simulateTradeSilent.  0 when there is none.
RECURSIVE FirstExit(_, _, _, _)
FirstExit(sim, remainingCandles, trade, i) ==
  IF i > Len(remainingCandles) THEN 0
  ELSE IF checkExitConditions(sim, remainingCandles[i], trade).found THEN i
  ELSE FirstExit(sim, remainingCandles, trade, i + 1)

\* The trade object with the position sized from the initial capital.
OpenTrade_FixedSize(sim, signal) ==
  [ id           |-> Len(sim.trades) + 1,
    signal       |-> signal,
    entryPrice   |-> signal.entryPrice * PriceScale(sim.leverage),
    entryTime    |-> signal.candle.openTime,
    direction    |-> signal.direction,
    positionSize |-> sim.initialCapital * sim.leverage,
    leverage     |-> sim.leverage,
    stopLoss     |-> calculateStopLoss(signal.entryPrice, signal.direction,
                                       sim.leverage, sim.stopLossPercent),
    takeProfit   |-> calculateTakeProfit(signal.entryPrice, signal.direction,
                                         sim.leverage, sim.takeProfitPercent) ]

\* The trade object simulateTradeSilent creates on entry (exit fields unset).
OpenTrade(sim, signal) ==
  [ id           |-> Len(sim.trades) + 1,
    signal       |-> signal,
    entryPrice   |-> signal.entryPrice * PriceScale(sim.leverage),
    entryTime    |-> signal.candle.openTime,
    direction    |-> signal.direction,
    positionSize |-> sim.currentBalance * sim.leverage,
    leverage     |-> sim.leverage,
    stopLoss     |-> calculateStopLoss(signal.entryPrice, signal.direction,
                                       sim.leverage, sim.stopLossPercent),
    takeProfit   |-> calculateTakeProfit(signal.entryPrice, signal.direction,
                                         sim.leverage, sim.takeProfitPercent) ]

\* The fallback close without the assignment of exitReason.
ExitOf_NoReason(sim, remainingCandles, trade) ==
  LET k   == FirstExit(sim, remainingCandles, trade, 1)
      hit == IF k = 0 THEN NoExit
             ELSE checkExitConditions(sim, remainingCandles[k], trade)
      n   == Len(remainingCandles)
  IN  IF hit.found /\ hit.price # 0
        THEN [ threw |-> FALSE, exitPrice |-> hit.price,
               exitTime |-> remainingCandles[k].openTime,
               exitReason |-> hit.reason, assignments |-> 1 ]
      ELSE IF n = 0
        THEN [ threw |-> TRUE, exitPrice |-> 0, exitTime |-> 0,
               exitReason |-> "null", assignments |-> 0 ]
      ELSE [ threw |-> FALSE,
             exitPrice |-> remainingCandles[n].close * PriceScale(sim.leverage),
             exitTime |-> remainingCandles[n].openTime,
             exitReason |-> hit.reason,
             assignments |-> IF hit.found THEN 1 ELSE 0 ]

\* The exit simulateTradeSilent settles on: the first exit condition of the
\* loop; when the loop left exitPrice falsy (no exit, or an exit at price 0),
\* the close of the last remaining candle with reason END_OF_DAY.  threw is
\* the TypeError of reading .close of remainingCandles[-1] (undefined) when
\* remainingCandles is empty.
ExitOf(sim, remainingCandles, trade) ==
  LET k   == FirstExit(sim, remainingCandles, trade, 1)
      hit == IF k = 0 THEN NoExit
             ELSE checkExitConditions(sim, remainingCandles[k], trade)
      n   == Len(remainingCandles)
  IN  IF hit.found /\ hit.price # 0
        THEN [ threw |-> FALSE, exitPrice |-> hit.price,
               exitTime |-> remainingCandles[k].openTime,
               exitReason |-> hit.reason, assignments |-> 1 ]
      ELSE IF n = 0
        THEN [ threw |-> TRUE, exitPrice |-> 0, exitTime |-> 0,
               exitReason |-> "null", assignments |-> 0 ]
      ELSE [ threw |-> FALSE,
             exitPrice |-> remainingCandles[n].close * PriceScale(sim.leverage),
             exitTime |-> remainingCandles[n].openTime,
             exitReason |-> "END_OF_DAY",
             assignments |-> IF hit.found THEN 2 ELSE 1 ]

\* The closed trade simulateTradeSilent returns (ExitOf did not throw).
ClosedTrade(sim, signal, remainingCandles) ==
  LET trade  == OpenTrade(sim, signal)
      exit   == ExitOf(sim, remainingCandles, trade)
      result == calculateTradeResult(sim, trade.entryPrice, exit.exitPrice,
                                     trade.direction)
  IN  [ id            |-> trade.id,
        signal        |-> signal,
        entryPrice    |-> trade.entryPrice,
        entryTime     |-> trade.entryTime,
        direction     |-> trade.direction,
        positionSize  |-> trade.positionSize,
        leverage      |-> trade.leverage,
        stopLoss      |-> trade.stopLoss,
        takeProfit    |-> trade.takeProfit,
        exitPrice     |-> exit.exitPrice,
        exitTime      |-> exit.exitTime,
        exitReason    |-> exit.exitReason,
        exitReasonWrites |-> exit.assignments,
        durationHours |-> getHoursDifference(trade.entryTime, exit.exitTime),
        resultUSD     |-> result.usd,
        resultPercent |-> result.percent ]

\* TradeSimulator.simulateTradeSilent: the simulator after the trade was
\* closed, the balance updated, the trade pushed and the day recorded.
simulateTradeSilent(sim, signal, remainingCandles) ==
  LET trade   == ClosedTrade(sim, signal, remainingCandles)
      balance == updateBalance(sim.currentBalance, trade.resultUSD)
      days    == DOMAIN sim.dailyResults \cup {signal.date}
  IN  [ sim EXCEPT
          !.currentBalance = balance,
          !.trades         = Append(sim.trades, trade),
          !.dailyResults   = [ d \in days |->
                                 IF d = signal.date
                                   THEN recordDailyResult(balance, trade)
                                   ELSE sim.dailyResults[d] ] ]

\* trades.reduce((sum, t) => sum + t.resultUSD, 0) over the trades at the
\* indexes S.
RECURSIVE SumResultUSD(_, _)
SumResultUSD(trades, S) ==
  IF S = {} THEN 0
  ELSE LET i == SetMin(S) IN trades[i].resultUSD + SumResultUSD(trades, S \ {i})

\* The statistics record getTradingStats builds from the winning and the
\* losing trades (index sets).  winRate and totalReturnPercent are in
\* hundredths of a percent, avgWin and avgLoss in thousandths of a dollar.
TradingStats(sim, winning, losing) ==
  LET n == Len(sim.trades)
      totalReturn == sim.currentBalance - sim.initialCapital
  IN  [ totalTrades    |-> n,
        winningTrades  |-> Cardinality(winning),
        losingTrades   |-> Cardinality(losing),
        winRate        |-> IF n > 0 THEN RoundScaled(Cardinality(winning), 100 * 100, n)
                           ELSE 0,
        initialCapital |-> sim.initialCapital,
        finalBalance   |-> sim.currentBalance,
        totalReturn    |-> Round2Mills(1, totalReturn, 1),
        totalReturnPercent |-> RoundScaled(totalReturn, 100 * 100, sim.initialCapital),
        avgWin         |-> IF winning # {}
                             THEN MillsPerCent *
                                    RoundScaled(SumResultUSD(sim.trades, winning), 1,
                                                MillsPerCent * Cardinality(winning))
                           ELSE 0,
        avgLoss        |-> IF losing # {}
                             THEN MillsPerCent *
                                    RoundScaled(Abs(SumResultUSD(sim.trades, losing)), 1,
                                                MillsPerCent * Cardinality(losing))
                           ELSE 0 ]

\* getTradingStats that counts a trade of result 0 as a winning trade.
getTradingStats_ZeroWins(sim) ==
  TradingStats(sim, { i \in 1..Len(sim.trades) : sim.trades[i].resultUSD >= 0 },
                    { i \in 1..Len(sim.trades) : sim.trades[i].resultUSD < 0 })

\* TradeSimulator.getTradingStats
getTradingStats(sim) ==
  TradingStats(sim, { i \in 1..Len(sim.trades) : sim.trades[i].resultUSD > 0 },
                    { i \in 1..Len(sim.trades) : sim.trades[i].resultUSD < 0 })

\* ----------------------------------------------------------- DataFormatter
\* DataFormatter.calculateMaxDrawdown: Math.abs(avgLoss) * 3, in thousandths
\* of a dollar.
calculateMaxDrawdown(tradingStats) == Abs(tradingStats.avgLoss) * 3

\* DataFormatter.calculateMaxDrawdownPercent: maxDrawdown / initialCapital *
\* 100 as a rational (not rounded), in percent.
calculateMaxDrawdownPercent(tradingStats) ==
  Ratio(calculateMaxDrawdown(tradingStats) * 100, tradingStats.initialCapital)

\* DataFormatter.formatSummary: the summary written to the results file.
formatSummary(tradingStats) ==
  [ totalTrades        |-> tradingStats.totalTrades,
    winningTrades      |-> tradingStats.winningTrades,
    losingTrades       |-> tradingStats.losingTrades,
    winRate            |-> tradingStats.winRate,
    totalReturn        |-> tradingStats.totalReturn,
    totalReturnPercent |-> tradingStats.totalReturnPercent,
    finalBalance       |-> tradingStats.finalBalance,
    avgWin             |-> tradingStats.avgWin,
    avgLoss            |-> tradingStats.avgLoss,
    maxDrawdown        |-> calculateMaxDrawdown(tradingStats),
    maxDrawdownPercent |-> calculateMaxDrawdownPercent(tradingStats) ]

\* DataFormatter.validateBalanceConsistency: TRUE when it returns, FALSE when
\* it throws 'Balance inconsistency': in the order of the dates, the
\* balanceBefore of each entry but the first, rounded to cents, is the
\* rounded balanceAfter of the entry before it.  (formatDailyResults copies
\* balanceBefore and balanceAfter unchanged.)
validateBalanceConsistency(dailyResults) ==
  \A date \in DOMAIN dailyResults :
    LET earlier == { d \in DOMAIN dailyResults : d < date }
    IN  earlier # {} =>
          Round2Mills(1, dailyResults[date].balanceBefore, 1)
            = Round2Mills(1, dailyResults[SetMax(earlier)].balanceAfter, 1)

\* ---------------------------------------------------------- BacktestEngine
\* BacktestEngine.constructor: a strategy, a simulator, no signals, no trades.
\* pc is the position of runBacktest ("idle": not running; "simulating":
\* inside simulateAllTradesWithLogs; "failed": the call threw), pending the
\* signals still to be simulated, runs the calls begun, results the
\* backtestData objects returned.
NewEngine(cfg) ==
  [ pc          |-> "idle",
    runs        |-> 0,
    dailyLevels |-> <<>>,
    simulator   |-> NewSimulator(cfg),
    signals     |-> <<>>,
    trades      |-> <<>>,
    pending     |-> <<>>,
    results     |-> <<>> ]

\* BacktestEngine.getAllDays: the dates of the candles (iterated in order).
getAllDays(cs) == DatesOf(cs)

\* BacktestEngine.groupSignalsByDay: the signals of one day, in signal order.
groupSignalsByDay(signals, day) ==
  SelectSeq(signals, LAMBDA sg : sg.date = day)

\* The order in which simulateAllTradesWithLogs visits the signals: day by
\* day in ascending date order, each day's signals in signal order.
RECURSIVE SimulationOrder(_, _)
SimulationOrder(signals, days) ==
  IF days = {} THEN <<>>
  ELSE LET day == SetMin(days)
       IN  groupSignalsByDay(signals, day) \o SimulationOrder(signals, days \ {day})

\* candles.findIndex(c => c.openTime === signal.candle.openTime): 0 for -1.
findIndex(cs, openTime) ==
  LET hits == { i \in 1..Len(cs) : cs[i].openTime = openTime }
  IN  IF hits = {} THEN 0 ELSE SetMin(hits)

\* candles.slice(entryCandleIndex + 1): the candles after index i.
RemainingCandles(cs, i) == SubSeq(cs, i + 1, Len(cs))

\* One simulator held at module level and shared by every engine.
SimulatorOf_Shared(e) == eng[1].simulator

\* this.simulator of engine e.
SimulatorOf(e) == eng[e].simulator

\* No other engine is inside runBacktest (one thread; the body of runBacktest
\* up to the export has no await).
NoneRunning == \A f \in DOMAIN eng : eng[f].pc # "simulating"

\* runBacktest, first part: strategy.processCandles(candles), then the start
\* of simulateAllTradesWithLogs (this.trades = [], signals grouped by day).
ProcessCandles(e, maxRuns) ==
  /\ eng[e].pc = "idle"
  /\ eng[e].runs < maxRuns
  /\ NoneRunning
  /\ LET signals == processCandles(candles)
     IN  eng' = [eng EXCEPT ![e] =
                   [ @ EXCEPT !.pc          = "simulating",
                              !.runs        = @ + 1,
                              !.dailyLevels = calculateDailyLevels(candles),
                              !.signals     = signals,
                              !.trades      = <<>>,
                              !.pending     = SimulationOrder(signals,
                                                              getAllDays(candles)) ]]
  /\ UNCHANGED <<candles, config>>

\* One iteration of the signal loop of simulateAllTradesWithLogs:
\* showSignalAndTrade(signal, remainingCandles) simulates the trade and
\* pushes it on the engine's trades.
ShowSignalAndTrade(e) ==
  /\ eng[e].pc = "simulating"
  /\ eng[e].pending # <<>>
  /\ LET signal == Head(eng[e].pending)
         entryCandleIndex == findIndex(candles, signal.candle.openTime)
         remainingCandles == RemainingCandles(candles, entryCandleIndex)
         sim   == SimulatorOf(e)
         after == simulateTradeSilent(sim, signal, remainingCandles)
     IN  IF entryCandleIndex = 0
           THEN eng' = [eng EXCEPT ![e].pending = Tail(@)]
         ELSE IF ExitOf(sim, remainingCandles, OpenTrade(sim, signal)).threw
           THEN eng' = [eng EXCEPT ![e].pc = "failed"]
         ELSE eng' = [eng EXCEPT ![e] =
                        [ @ EXCEPT !.simulator = after,
                                   !.trades    = Append(@, after.trades[Len(after.trades)]),
                                   !.pending   = Tail(@) ]]
  /\ UNCHANGED <<candles, config>>

\* runBacktest, last part: showFinalStats and the backtestData returned;
\* summary is what the exporter's formatBacktestData makes of tradingStats.
FinishBacktest(e) ==
  /\ eng[e].pc = "simulating"
  /\ eng[e].pending = <<>>
  /\ eng' = [eng EXCEPT ![e] =
               [ @ EXCEPT !.pc      = "idle",
                          !.results = Append(@,
                            [ signals      |-> eng[e].signals,
                              trades       |-> eng[e].trades,
                              tradingStats |-> getTradingStats(SimulatorOf(e)),
                              summary      |-> formatSummary(
                                                 getTradingStats(SimulatorOf(e))),
                              dailyResults |-> SimulatorOf(e).dailyResults,
                              balanceConsistent |->
                                validateBalanceConsistency(
                                  SimulatorOf(e).dailyResults) ]) ]]
  /\ UNCHANGED <<candles, config>>

\* ------------------------------------------------------------ specification
\* The candle sequences: n candles, strictly increasing open times.
RECURSIVE OpenTimeOf(_, _)
OpenTimeOf(gaps, i) == IF i = 1 THEN FirstOpenTime ELSE OpenTimeOf(gaps, i - 1) + gaps[i]

\* The candle sequences given to runBacktest.
InitCandles ==
  \E n \in 0..MaxBars :
    \E shape \in [1..n -> Shapes] :
      \E gaps \in [2..n -> Gaps] :
        candles = [ i \in 1..n |->
                      [ openTime |-> OpenTimeOf(gaps, i),
                        open     |-> shape[i].open,
                        high     |-> shape[i].high,
                        low      |-> shape[i].low,
                        close    |-> shape[i].close ] ]

InitInputs ==
  /\ InitCandles
  /\ config \in Configs

\* One engine, called up to MaxRuns times.
Init ==
  /\ InitInputs
  /\ eng = [e \in {1} |-> NewEngine(config)]

RunBacktest == \E e \in DOMAIN eng : ProcessCandles(e, MaxRuns)
SimulateTrade == \E e \in DOMAIN eng : ShowSignalAndTrade(e)
ReturnResults == \E e \in DOMAIN eng : FinishBacktest(e)

Next == RunBacktest \/ SimulateTrade \/ ReturnResults

Spec == Init /\ [][Next]_vars

\* Two fresh engines with the same configuration, each called once on the
\* same candles.
InitReplay ==
  /\ InitInputs
  /\ eng = [e \in {1, 2} |-> NewEngine(config)]

RunBacktestOnce == \E e \in DOMAIN eng : ProcessCandles(e, 1)

NextReplay == RunBacktestOnce \/ SimulateTrade \/ ReturnResults

SpecReplay == InitReplay /\ [][NextReplay]_vars

\* One engine with a fresh simulator, called once on daily candles: up to
\* MaxDays candles, one per calendar date.
InitDaily ==
  /\ \E n \in 0..MaxDays :
       \E shape \in [1..n -> Shapes] :
         candles = [ i \in 1..n |->
                       [ openTime |-> FirstOpenTime + (i - 1) * MinutesPerDay,
                         open     |-> shape[i].open,
                         high     |-> shape[i].high,
                         low      |-> shape[i].low,
                         close    |-> shape[i].close ] ]
  /\ config \in Configs
  /\ eng = [e \in {1} |-> NewEngine(config)]

SpecDaily == InitDaily /\ [][NextReplay]_vars

\* One engine, called once on candles that are not a whole number of hours
\* apart (runBacktest takes any candle array), with --hours=1.5 or
\* --hours=2: parseFloat keeps the fraction.
IntradayGaps == {MinutesPerHour, MinutesPerHour + MinutesPerHour \div 2}
IntradayConfigs ==
  { [initialCapital |-> 100000, leverage |-> 5,
     maxHours |-> MinutesPerHour + MinutesPerHour \div 2,
     stopLossPercent |-> 10, takeProfitPercent |-> 20, utcOffset |-> 0],
    [initialCapital |-> 100000, leverage |-> 5,
     maxHours |-> 2 * MinutesPerHour,
     stopLossPercent |-> 10, takeProfitPercent |-> 20, utcOffset |-> 0] }

InitIntraday ==
  /\ \E n \in 0..MaxBars :
       \E shape \in [1..n -> Shapes] :
         \E gaps \in [2..n -> IntradayGaps] :
           candles = [ i \in 1..n |->
                         [ openTime |-> OpenTimeOf(gaps, i),
                           open     |-> shape[i].open,
                           high     |-> shape[i].high,
                           low      |-> shape[i].low,
                           close    |-> shape[i].close ] ]
  /\ config \in IntradayConfigs
  /\ eng = [e \in {1} |-> NewEngine(config)]

SpecIntraday == InitIntraday /\ [][NextReplay]_vars

\* One engine with the default configuration, called once on candles whose
\* opens and closes touch the levels of other candles, consecutive candles
\* being one hour or two days apart (a calendar date without candles lies
\* between two dates that have some).
LevelShapes ==
  { [open |-> 100, high |-> 103, low |->  99, close |-> 102],
    [open |-> 103, high |-> 106, low |-> 101, close |-> 104],
    [open |->  99, high |-> 101, low |->  97, close |-> 100],
    [open |->  98, high |-> 106, low |->  95, close |-> 100],
    [open |-> 100, high |-> 102, low |->  96, close |-> 101] }
LevelGaps == {MinutesPerHour, 2 * MinutesPerDay}
LevelConfigs == { c \in Configs : c.initialCapital = 100000 /\ c.maxHours > 0 }

InitLevels ==
  /\ \E n \in 0..MaxBars :
       \E shape \in [1..n -> LevelShapes] :
         \E gaps \in [2..n -> LevelGaps] :
           candles = [ i \in 1..n |->
                         [ openTime |-> OpenTimeOf(gaps, i),
                           open     |-> shape[i].open,
                           high     |-> shape[i].high,
                           low      |-> shape[i].low,
                           close    |-> shape[i].close ] ]
  /\ config \in LevelConfigs
  /\ eng = [e \in {1} |-> NewEngine(config)]

SpecLevels == InitLevels /\ [][NextReplay]_vars

\* One engine with the default configuration, called once, in a process
\* whose time zone is UTC, UTC+2 or UTC-5.
ZoneOffsets == {0, 2 * MinutesPerHour, -5 * MinutesPerHour}
ZoneConfigs ==
  { [c EXCEPT !.utcOffset = z] : c \in LevelConfigs, z \in ZoneOffsets }

InitZone ==
  /\ InitCandles
  /\ config \in ZoneConfigs
  /\ eng = [e \in {1} |-> NewEngine(config)]

SpecZone == InitZone /\ [][NextReplay]_vars

\* ================================================================== claims
Engines == DOMAIN eng

\* The direction the breakout detector returns for candle i of the input with
\* the previous-day levels of its date ("none": no breakout or no direction).
DirectionAt(i) ==
  LET lv == calculateDailyLevels(candles)[getDateOnly(candles[i].openTime)]
  IN  detectBreakout(candles[i], lv.previousHigh, lv.previousLow).direction

\* The candles of date d for which the detector returns a direction.
DirectedCandles(d) ==
  { i \in 1..Len(candles) :
      getDateOnly(candles[i].openTime) = d /\ DirectionAt(i) # "none" }

\* C1: processCandles emits at most one signal per calendar date, and no
\* signal on the earliest date of the input.
C1_OneSignalPerDate ==
  \A e \in Engines :
    LET s == eng[e].signals
    IN  /\ \A i, j \in 1..Len(s) : i # j => s[i].date # s[j].date
        /\ \A i \in 1..Len(s) :
             /\ s[i].date = getDateOnly(s[i].candle.openTime)
             /\ s[i].date # SetMin(DatesOf(candles))

\* C1 witness: signals on two dates, one of them a date on which a second
\* candle also has a direction.
C1_Witness ==
  \E e \in Engines :
    /\ Len(eng[e].signals) >= 2
    /\ \E i \in 1..Len(eng[e].signals) :
         Cardinality(DirectedCandles(eng[e].signals[i].date)) >= 2

\* C9: the signal of a date comes from the earliest candle of that date for
\* which the detector returns a direction; later candles of the date are
\* suppressed, and an earlier breakout without direction does not take the
\* date's slot.
C9_EarliestDirectedCandle ==
  \A e \in Engines :
    eng[e].runs > 0 =>
      \A d \in DatesOf(candles) :
        LET s    == eng[e].signals
            ofD  == { i \in 1..Len(s) : s[i].date = d }
            dirs == DirectedCandles(d)
        IN  IF dirs = {} THEN ofD = {}
            ELSE /\ Cardinality(ofD) = 1
                 /\ \A i \in ofD :
                      /\ s[i].candle = candles[SetMin(dirs)]
                      /\ s[i].direction = DirectionAt(SetMin(dirs))

\* C9 witness: on one date, a breakout without direction, then the signal
\* candle, and a later candle of the opposite direction that is suppressed.
C9_Witness ==
  \E e \in Engines :
    \E k \in 1..Len(eng[e].signals) :
      LET sg   == eng[e].signals[k]
          at   == findIndex(candles, sg.candle.openTime)
          lv   == calculateDailyLevels(candles)[sg.date]
      IN  /\ \E j \in 1..(at - 1) :
               /\ getDateOnly(candles[j].openTime) = sg.date
               /\ detectBreakout(candles[j], lv.previousHigh, lv.previousLow).found
               /\ DirectionAt(j) = "none"
          /\ \E j \in (at + 1)..Len(candles) :
               /\ getDateOnly(candles[j].openTime) = sg.date
               /\ DirectionAt(j) \notin {"none", sg.direction}

\* Every trade a simulator holds; backtestData.trades is this same array.
ReturnedTrades ==
  UNION { { eng[e].simulator.trades[k] : k \in 1..Len(eng[e].simulator.trades) }
          : e \in Engines }

ExecutedDays ==
  UNION { { eng[e].simulator.dailyResults[d] : d \in DOMAIN eng[e].simulator.dailyResults }
          : e \in Engines }

\* The running balance at the entry of trade t (positionSize is that balance
\* times the leverage).
BalanceAtEntry(t) == t.positionSize \div t.leverage

\* The price move of trade t in scaled price units, signed by its direction.
PriceMove(t) ==
  IF t.direction = "LONG" THEN t.exitPrice - t.entryPrice
                          ELSE t.entryPrice - t.exitPrice

\* The result of trade t is a whole number of cents only after rounding:
\* move / entry * balanceAtEntry * leverage is no multiple of a cent.
UnroundedResultIsCents(t) ==
  LET den == t.signal.entryPrice * 100
  IN  (PriceMove(t) * (BalanceAtEntry(t) % (MillsPerCent * den)))
        % (MillsPerCent * den) = 0

\* C3 (as claimed): balanceAfter = balanceBefore + resultUSD with
\* balanceBefore the running balance at entry, and one rounding per trade,
\* of the updated balance, the result being added unrounded.
C3_Claimed ==
  \A r \in ExecutedDays :
    /\ r.balanceAfter = r.balanceBefore + r.trade.resultUSD
    /\ r.balanceBefore = BalanceAtEntry(r.trade)
    /\ r.balanceAfter =
         Round2Mills(r.trade.signal.entryPrice * 100 + PriceMove(r.trade),
                     BalanceAtEntry(r.trade),
                     r.trade.signal.entryPrice * 100)

\* C3 (amended): balanceAfter = balanceBefore + resultUSD, where resultUSD is
\* the result already rounded to cents, balanceAfter is the balance at entry
\* plus that result rounded to cents again, and balanceBefore is the balance
\* at entry whenever that balance is a whole number of cents.
C3_BalanceAfter ==
  \A r \in ExecutedDays :
    /\ r.tradeExecuted
    /\ r.dailyReturn = r.trade.resultUSD
    /\ r.balanceAfter = r.balanceBefore + r.trade.resultUSD
    /\ r.trade.resultUSD % MillsPerCent = 0
    /\ r.balanceAfter % MillsPerCent = 0
    /\ r.balanceAfter - (BalanceAtEntry(r.trade) + r.trade.resultUSD)
         \in -(MillsPerCent \div 2 - 1) .. (MillsPerCent \div 2)
    /\ BalanceAtEntry(r.trade) % MillsPerCent = 0
         => r.balanceBefore = BalanceAtEntry(r.trade)

\* C3 witness: a recorded trade whose unrounded result is no whole number of
\* cents, entered at a balance that is no whole number of cents.
C3_Witness ==
  \E r \in ExecutedDays :
    /\ ~UnroundedResultIsCents(r.trade)
    /\ BalanceAtEntry(r.trade) % MillsPerCent # 0
    /\ r.balanceBefore # BalanceAtEntry(r.trade)

\* What a run reports of its trades: ids, position sizes, and the balance.
RunSummary(result) ==
  [ ids           |-> [k \in 1..Len(result.trades) |-> result.trades[k].id],
    positionSizes |-> [k \in 1..Len(result.trades) |-> result.trades[k].positionSize],
    finalBalance  |-> result.tradingStats.finalBalance ]

\* C4 (as claimed): every runBacktest call starts from currentBalance =
\* initialCapital with no trades and no daily results, and a second call on
\* the same engine returns the trade ids, position sizes and final balance of
\* the first.
C4_Claimed ==
  \A e \in Engines :
    /\ (eng[e].pc = "simulating" /\ eng[e].trades = <<>>) =>
         /\ eng[e].simulator.currentBalance = eng[e].simulator.initialCapital
         /\ eng[e].simulator.trades = <<>>
         /\ DOMAIN eng[e].simulator.dailyResults = {}
    /\ \A i, j \in 1..Len(eng[e].results) :
         RunSummary(eng[e].results[i]) = RunSummary(eng[e].results[j])

RECURSIVE BalanceAfterTrade(_, _)
BalanceAfterTrade(sim, k) ==
  IF k = 0 THEN sim.initialCapital
  ELSE Round2Mills(1, BalanceAfterTrade(sim, k - 1) + sim.trades[k].resultUSD, 1)

\* C6: the k-th trade a simulator creates (trade id k) has positionSize =
\* leverage * the balance left by trade k-1 (leverage * initialCapital for
\* k = 1), and the trades of a run are simulated in chronological order.
C6_Compounding ==
  \A e \in Engines :
    LET sim == eng[e].simulator
    IN  /\ \A k \in 1..Len(sim.trades) :
             /\ sim.trades[k].id = k
             /\ sim.trades[k].positionSize =
                  sim.leverage * BalanceAfterTrade(sim, k - 1)
        /\ sim.currentBalance = BalanceAfterTrade(sim, Len(sim.trades))
        /\ \A i, j \in 1..Len(eng[e].trades) :
             i < j => eng[e].trades[i].entryTime < eng[e].trades[j].entryTime

\* C6 witness: a second trade sized from a balance that the first changed.
C6_Witness ==
  \E e \in Engines :
    LET sim == eng[e].simulator
    IN  /\ Len(eng[e].trades) >= 2
        /\ eng[e].runs = 1
        /\ sim.trades[1].resultUSD # 0
        /\ sim.trades[2].positionSize # sim.leverage * sim.initialCapital

\* C7: stop loss and take profit of every trade lie (percent / leverage / 100)
\* * entry from the entry price: below and above it for a LONG, above and
\* below it for a SHORT.
C7_StopLossTakeProfit ==
  \A e \in Engines :
    \A k \in 1..Len(eng[e].simulator.trades) :
      LET sim == eng[e].simulator
          t   == sim.trades[k]
      IN  /\ t.entryPrice = t.signal.candle.close * PriceScale(sim.leverage)
          /\ t.direction = t.signal.direction
          /\ IF t.direction = "LONG"
               THEN /\ (t.entryPrice - t.stopLoss) * 100 * sim.leverage
                         = sim.stopLossPercent * t.entryPrice
                    /\ (t.takeProfit - t.entryPrice) * 100 * sim.leverage
                         = sim.takeProfitPercent * t.entryPrice
               ELSE /\ (t.stopLoss - t.entryPrice) * 100 * sim.leverage
                         = sim.stopLossPercent * t.entryPrice
                    /\ (t.entryPrice - t.takeProfit) * 100 * sim.leverage
                         = sim.takeProfitPercent * t.entryPrice

\* C7 witness: entry 100, leverage 5, stop loss 10 %, take profit 20 %, LONG:
\* stop loss 98 and take profit 104.
C7_Witness ==
  \E e \in Engines :
    LET sim == eng[e].simulator
    IN  /\ sim.leverage = 5 /\ sim.stopLossPercent = 10 /\ sim.takeProfitPercent = 20
        /\ \E k \in 1..Len(sim.trades) :
             /\ sim.trades[k].direction = "LONG"
             /\ sim.trades[k].entryPrice = 100 * PriceScale(5)
             /\ sim.trades[k].stopLoss = 98 * PriceScale(5)
             /\ sim.trades[k].takeProfit = 104 * PriceScale(5)

\* C8 (as claimed): resultUSD = priceMovePercent / 100 * balanceAtEntry *
\* leverage and resultPercent = priceMovePercent * leverage, exactly.
C8_Claimed ==
  \A e \in Engines :
    \A k \in 1..Len(eng[e].simulator.trades) :
      LET sim == eng[e].simulator
          t   == sim.trades[k]
      IN  /\ t.resultUSD * (t.signal.entryPrice * 100)
               = PriceMove(t) * BalanceAfterTrade(sim, k - 1)
          /\ t.resultPercent * t.signal.entryPrice = PriceMove(t) * 100

\* C8 (amended): resultUSD and resultPercent are those two values rounded to
\* 2 decimals; balanceAtEntry is the balance left by the previous trade.
C8_TradeResult ==
  \A e \in Engines :
    \A k \in 1..Len(eng[e].simulator.trades) :
      LET sim == eng[e].simulator
          t   == sim.trades[k]
      IN  /\ t.resultUSD = Round2Mills(PriceMove(t), BalanceAfterTrade(sim, k - 1),
                                       t.signal.entryPrice * 100)
          /\ t.resultPercent = Round2Hundredths(PriceMove(t) * 100,
                                                t.signal.entryPrice)

\* C8 witness: balance 100, leverage 5, LONG 100 -> 104: +20 USD, +20 %.
C8_Witness ==
  \E e \in Engines :
    \E k \in 1..Len(eng[e].simulator.trades) :
      LET sim == eng[e].simulator
          t   == sim.trades[k]
      IN  /\ sim.leverage = 5
          /\ BalanceAfterTrade(sim, k - 1) = 100000
          /\ t.direction = "LONG"
          /\ t.entryPrice = 100 * PriceScale(5)
          /\ t.exitPrice = 104 * PriceScale(5)
          /\ t.resultUSD = 20000
          /\ t.resultPercent = 2000

\* C10 (as claimed): when a run has ended, it holds one trade per signal, the
\* k-th trade built from the k-th signal.
C10_Claimed ==
  \A e \in Engines :
    (eng[e].runs > 0 /\ eng[e].pc # "simulating") =>
      /\ Len(eng[e].trades) = Len(eng[e].signals)
      /\ \A k \in 1..Len(eng[e].trades) : eng[e].trades[k].signal = eng[e].signals[k]

\* The first candle after the source candle of signal sg that satisfies an
\* exit check of engine e's simulator: its index in the remaining candles,
\* 0 when there is none.
FirstExitAfter(e, sg) ==
  LET sim == eng[e].simulator
  IN  FirstExit(sim, RemainingCandles(candles, findIndex(candles, sg.candle.openTime)),
                OpenTrade(sim, sg), 1)

\* C11 (as claimed): when a run has ended, every signal has its trade; when
\* no candle after the entry candle satisfies the TIME, SL or TP check, the
\* trade is closed at the close of the last candle of the input, at that
\* candle's open time, with reason DATA_EXHAUSTION; otherwise its exit is
\* that of the first candle satisfying a check.
C11_Claimed ==
  \A e \in Engines :
    (eng[e].runs > 0 /\ eng[e].pc # "simulating") =>
      \A k \in 1..Len(eng[e].signals) :
        LET sg   == eng[e].signals[k]
            sim  == eng[e].simulator
            rem  == RemainingCandles(candles, findIndex(candles, sg.candle.openTime))
            hit  == FirstExitAfter(e, sg)
            last == candles[Len(candles)]
        IN  \E j \in 1..Len(eng[e].trades) :
              LET t == eng[e].trades[j]
              IN  /\ t.signal = sg
                  /\ IF hit = 0
                       THEN /\ t.exitPrice = last.close * PriceScale(sim.leverage)
                            /\ t.exitTime = last.openTime
                            /\ t.exitReason = "DATA_EXHAUSTION"
                       ELSE /\ t.exitTime = rem[hit].openTime
                            /\ t.exitReason =
                                 checkExitConditions(sim, rem[hit], OpenTrade(sim, sg)).reason
                            /\ t.exitPrice =
                                 checkExitConditions(sim, rem[hit], OpenTrade(sim, sg)).price

\* The input has no date with previous-day levels: it is empty, or all its
\* candles fall on one calendar date.
InsufficientData == Cardinality(DatesOf(candles)) <= 1

\* C12 (as claimed): a run on an empty or single-date input ends with an
\* error (the call throws and returns no backtestData), simulates no trade
\* and leaves the balance alone.
C12_Claimed ==
  InsufficientData =>
    \A e \in Engines :
      /\ eng[e].results = <<>>
      /\ (eng[e].runs > 0 /\ eng[e].pc # "simulating") => eng[e].pc = "failed"
      /\ eng[e].simulator.trades = <<>>
      /\ eng[e].simulator.currentBalance = eng[e].simulator.initialCapital

\* A configuration with a non-positive leverage, capital or maximum duration.
InvalidConfiguration(cfg) ==
  cfg.leverage <= 0 \/ cfg.initialCapital <= 0 \/ cfg.maxHours <= 0

\* C13 (as claimed): with an invalid configuration no run is performed: no
\* trade is ever simulated with it and no backtestData is returned.
C13_Claimed ==
  InvalidConfiguration(config) =>
    \A e \in Engines :
      /\ eng[e].simulator.trades = <<>>
      /\ eng[e].results = <<>>

\* The running balance of engine e's simulator when the run reaches date d:
\* the balance left by its trades of earlier dates.
RunningBalanceAt(e, d) ==
  LET sim == eng[e].simulator
  IN  BalanceAfterTrade(sim, Cardinality({ k \in 1..Len(sim.trades) :
                                             sim.trades[k].signal.date < d }))

\* C14 (as claimed): after a run, dailyResults has one entry for every date
\* of the input: tradeExecuted = TRUE on a date with a signal, and on a date
\* without signal the entry of a day without trade at the running balance.
C14_Claimed ==
  \A e \in Engines :
    Len(eng[e].results) >= 1 =>
      LET dr == eng[e].results[1].dailyResults
      IN  /\ DOMAIN dr = DatesOf(candles)
          /\ \A d \in DatesOf(candles) :
               /\ d \in DOMAIN dr
               /\ IF \E k \in 1..Len(eng[e].signals) : eng[e].signals[k].date = d
                    THEN dr[d].tradeExecuted
                    ELSE dr[d] = recordNoTradeDay(RunningBalanceAt(e, d))

\* C15 (as claimed): the statistics of a run count as winning exactly the
\* trades with resultUSD > 0 and as losing exactly those with resultUSD < 0,
\* and winRate is winningTrades / totalTrades * 100 exactly (0 without
\* trades).
C15_Claimed ==
  \A e \in Engines :
    \A i \in 1..Len(eng[e].results) :
      LET r  == eng[e].results[i]
          st == r.tradingStats
          w  == Cardinality({ k \in 1..Len(r.trades) : r.trades[k].resultUSD > 0 })
          l  == Cardinality({ k \in 1..Len(r.trades) : r.trades[k].resultUSD < 0 })
      IN  /\ st.totalTrades = Len(r.trades)
          /\ st.winningTrades = w
          /\ st.losingTrades = l
          /\ w + l <= st.totalTrades
          /\ st.winRate * st.totalTrades = w * 100 * 100

\* C15 (amended): the same counts, and winRate is winningTrades / totalTrades
\* * 100 rounded to the nearest hundredth of a percent (0 without trades).
C15_WinRate ==
  \A e \in Engines :
    \A i \in 1..Len(eng[e].results) :
      LET r  == eng[e].results[i]
          st == r.tradingStats
          w  == Cardinality({ k \in 1..Len(r.trades) : r.trades[k].resultUSD > 0 })
          l  == Cardinality({ k \in 1..Len(r.trades) : r.trades[k].resultUSD < 0 })
      IN  /\ st.totalTrades = Len(r.trades)
          /\ st.winningTrades = w
          /\ st.losingTrades = l
          /\ w + l <= st.totalTrades
          /\ IF st.totalTrades = 0 THEN st.winRate = 0
             ELSE /\ 2 * (st.winRate * st.totalTrades - w * 100 * 100) <= st.totalTrades
                  /\ 2 * (w * 100 * 100 - st.winRate * st.totalTrades) < st.totalTrades

\* C15 witness: a run of three trades, one won, one lost and one of result 0:
\* winRate 33.33.
C15_Witness ==
  \E e \in Engines :
    \E i \in 1..Len(eng[e].results) :
      LET st == eng[e].results[i].tradingStats
      IN  /\ st.totalTrades = 3
          /\ st.winningTrades = 1
          /\ st.losingTrades = 1
          /\ st.winRate = 3333

\* C16 (as claimed): the statistics of a run hold profitFactor = the sum of
\* the winning results / |the sum of the losing results|, and a fixed marker
\* (null) when the run has no losing trade.
C16_Claimed ==
  \A e \in Engines :
    \A i \in 1..Len(eng[e].results) :
      LET r       == eng[e].results[i]
          st      == r.tradingStats
          trades  == eng[e].simulator.trades
          winning == { k \in 1..Len(trades) : trades[k].resultUSD > 0 }
          losing  == { k \in 1..Len(trades) : trades[k].resultUSD < 0 }
      IN  /\ "profitFactor" \in DOMAIN st
          /\ IF losing = {} THEN st.profitFactor = Null
             ELSE st.profitFactor = Ratio(SumResultUSD(trades, winning),
                                          Abs(SumResultUSD(trades, losing)))

\* The largest peak-to-trough decline of the running balance of a simulator
\* over its trade sequence: the maximum over the points j of the run of the
\* highest balance reached up to j minus the balance at j.
PeakBefore(sim, j) == SetMax({ BalanceAfterTrade(sim, i) : i \in 0..j })
MaxDecline(sim) ==
  SetMax({ PeakBefore(sim, j) - BalanceAfterTrade(sim, j) : j \in 0..Len(sim.trades) })

\* C17 (as claimed): summary.maxDrawdown is the largest peak-to-trough
\* decline of the running balance over the trade sequence, and
\* maxDrawdownPercent is that decline relative to a balance of the run.
C17_Claimed ==
  \A e \in Engines :
    Len(eng[e].results) >= 1 =>
      LET sim == eng[e].simulator
          sm  == eng[e].results[Len(eng[e].results)].summary
      IN  /\ sm.maxDrawdown = MaxDecline(sim)
          /\ \E j \in 0..Len(sim.trades) :
               sm.maxDrawdownPercent =
                 Ratio(MaxDecline(sim) * 100, BalanceAfterTrade(sim, j))

\* C18 (as claimed): every closed trade lasts at most maxHours whole hours
\* from the open time of its entry candle to the open time of its exit candle.
C18_Claimed ==
  \A e \in Engines :
    \A k \in 1..Len(eng[e].simulator.trades) :
      LET t == eng[e].simulator.trades[k]
      IN  /\ t.durationHours = getHoursDifference(t.entryTime, t.exitTime)
          /\ t.durationHours * MinutesPerHour <= eng[e].simulator.maxHours

\* C19 (as claimed): no closed trade has resultPercent below -stopLossPercent
\* or above +takeProfitPercent (resultPercent in hundredths of a percent).
C19_Claimed ==
  \A e \in Engines :
    \A k \in 1..Len(eng[e].simulator.trades) :
      LET sim == eng[e].simulator
          t   == sim.trades[k]
      IN  /\ t.resultPercent >= -(sim.stopLossPercent * 100)
          /\ t.resultPercent <= sim.takeProfitPercent * 100

\* The three exit checks of trade t on candle c, each on its own.
TimeCheck(t, c, maxHours) ==
  ((c.openTime - t.entryTime) \div MinutesPerHour) * MinutesPerHour >= maxHours
StopLossCheck(t, c) ==
  IF t.direction = "LONG" THEN c.low * PriceScale(t.leverage) <= t.stopLoss
                          ELSE c.high * PriceScale(t.leverage) >= t.stopLoss
TakeProfitCheck(t, c) ==
  IF t.direction = "LONG" THEN c.high * PriceScale(t.leverage) >= t.takeProfit
                          ELSE c.low * PriceScale(t.leverage) <= t.takeProfit
AnyCheck(t, c, maxHours) ==
  TimeCheck(t, c, maxHours) \/ StopLossCheck(t, c) \/ TakeProfitCheck(t, c)

\* The candles of the input strictly after the entry candle of trade t.
BarsAfterEntry(t) == { i \in 1..Len(candles) : candles[i].openTime > t.entryTime }

\* C20: a trade is closed on the first candle after its entry candle for which
\* a check holds, with reason TIME if the time check holds there, otherwise SL
\* if the stop-loss check holds, otherwise TP; when no candle after the entry
\* satisfies a check, the reason is none of the three.
C20_ExitPriority ==
  \A e \in Engines :
    \A k \in 1..Len(eng[e].simulator.trades) :
      LET t        == eng[e].simulator.trades[k]
          maxHours == eng[e].simulator.maxHours
          hits     == { i \in BarsAfterEntry(t) : AnyCheck(t, candles[i], maxHours) }
      IN  IF hits = {} THEN t.exitReason \notin {"TIME", "SL", "TP"}
          ELSE LET c == candles[SetMin(hits)]
               IN  /\ t.exitTime = c.openTime
                   /\ t.exitTime > t.entryTime
                   /\ t.exitReason =
                        IF TimeCheck(t, c, maxHours) THEN "TIME"
                        ELSE IF StopLossCheck(t, c) THEN "SL"
                        ELSE "TP"

\* C20 witness: one simulator holds a trade closed as TIME on a candle that
\* also satisfies the stop-loss check, and a trade closed as SL on a candle
\* that also satisfies the take-profit check.
C20_Witness ==
  \E e \in Engines :
    LET sim == eng[e].simulator
    IN  /\ \E k \in 1..Len(sim.trades) :
             LET t == sim.trades[k]
             IN  /\ t.exitReason = "TIME"
                 /\ \E i \in BarsAfterEntry(t) :
                      /\ candles[i].openTime = t.exitTime
                      /\ StopLossCheck(t, candles[i])
        /\ \E k \in 1..Len(sim.trades) :
             LET t == sim.trades[k]
             IN  /\ t.exitReason = "SL"
                 /\ \E i \in BarsAfterEntry(t) :
                      /\ candles[i].openTime = t.exitTime
                      /\ ~TimeCheck(t, candles[i], sim.maxHours)
                      /\ TakeProfitCheck(t, candles[i])


\* C21 (as claimed): a candle examined after the entry closes the trade with
\* reason TIME, at its close, exactly when the time from the entry candle's
\* open to its own open is at least maxHours (both in minutes here), whatever
\* the fraction of maxHours and the spacing of the candles.
C21_Claimed ==
  \A e \in Engines :
    \A k \in 1..Len(eng[e].simulator.trades) :
      LET sim == eng[e].simulator
          t   == sim.trades[k]
      IN  \A i \in BarsAfterEntry(t) :
            candles[i].openTime <= t.exitTime =>
              ( (candles[i].openTime - t.entryTime >= sim.maxHours)
                <=> ( /\ t.exitTime = candles[i].openTime
                      /\ t.exitReason = "TIME"
                      /\ t.exitPrice = candles[i].close * PriceScale(t.leverage) ) )


\* The candles on which trade t was closed (the candle that opens at exitTime).
ExitBars(t) == { i \in BarsAfterEntry(t) : candles[i].openTime = t.exitTime }

\* C22: a trade closed with reason SL has exitPrice = its stopLoss, and its
\* exit candle has low <= stopLoss (LONG) or high >= stopLoss (SHORT); a trade
\* closed with reason TP has exitPrice = its takeProfit, and its exit candle
\* has high >= takeProfit (LONG) or low <= takeProfit (SHORT).
C22_FillAtLevel ==
  \A e \in Engines :
    \A k \in 1..Len(eng[e].simulator.trades) :
      LET t     == eng[e].simulator.trades[k]
          scale == PriceScale(t.leverage)
      IN  /\ t.exitReason = "SL" =>
               /\ t.exitPrice = t.stopLoss
               /\ \A i \in ExitBars(t) :
                    IF t.direction = "LONG"
                      THEN candles[i].low * scale <= t.stopLoss
                      ELSE candles[i].high * scale >= t.stopLoss
          /\ t.exitReason = "TP" =>
               /\ t.exitPrice = t.takeProfit
               /\ \A i \in ExitBars(t) :
                    IF t.direction = "LONG"
                      THEN candles[i].high * scale >= t.takeProfit
                      ELSE candles[i].low * scale <= t.takeProfit

\* C22 witness: one simulator has closed a trade by SL and a trade by TP, each
\* at a level that is none of the exit candle's low, high and close.
C22_Witness ==
  \E e \in Engines :
    LET ts == eng[e].simulator.trades
        Inside(t) ==
          /\ ExitBars(t) # {}
          /\ \A i \in ExitBars(t) :
               t.exitPrice \notin { candles[i].low * PriceScale(t.leverage),
                                    candles[i].high * PriceScale(t.leverage),
                                    candles[i].close * PriceScale(t.leverage) }
    IN  /\ \E k \in 1..Len(ts) : ts[k].exitReason = "SL" /\ Inside(ts[k])
        /\ \E k \in 1..Len(ts) : ts[k].exitReason = "TP" /\ Inside(ts[k])


\* The candles of the input whose date has previous-day levels.
LevelledBars(e) ==
  { i \in 1..Len(candles) :
      LET d == getDateOnly(candles[i].openTime)
      IN  /\ d \in DOMAIN eng[e].dailyLevels
          /\ eng[e].dailyLevels[d].previousHigh # Null
          /\ eng[e].dailyLevels[d].previousLow # Null }
PreviousHighOf(e, i) ==
  Val(eng[e].dailyLevels[getDateOnly(candles[i].openTime)].previousHigh)
PreviousLowOf(e, i) ==
  Val(eng[e].dailyLevels[getDateOnly(candles[i].openTime)].previousLow)
\* The body of candle c (open and close) is strictly on one side of level.
BodyAbove(c, level) == c.open > level /\ c.close > level
BodyBelow(c, level) == c.open < level /\ c.close < level

\* C23: for a candle with high > previousHigh the detector answers from the
\* high branch alone, whatever its low: BREAKOUT_HIGH with LONG when the body
\* is above previousHigh, SHORT when it is below, no direction otherwise; a
\* candle whose body is not strictly on one side of previousHigh is never the
\* candle of a signal, and every signal from such a candle is BREAKOUT_HIGH.
C23_HighBranchFirst ==
  \A e \in Engines :
    \A i \in LevelledBars(e) :
      LET c == candles[i]
          H == PreviousHighOf(e, i)
          L == PreviousLowOf(e, i)
          b == detectBreakout(c, Some(H), Some(L))
      IN  c.high > H =>
            /\ b.found /\ b.type = "BREAKOUT_HIGH"
            /\ b.direction = IF BodyAbove(c, H) THEN "LONG"
                             ELSE IF BodyBelow(c, H) THEN "SHORT" ELSE "none"
            /\ \A k \in 1..Len(eng[e].signals) :
                 eng[e].signals[k].candle = c =>
                   /\ eng[e].signals[k].type = "BREAKOUT_HIGH"
                   /\ eng[e].signals[k].direction = b.direction
                   /\ BodyAbove(c, H) \/ BodyBelow(c, H)

\* C23 witness: after processCandles, a candle breaks both levels with a body
\* that straddles previousHigh and lies strictly above previousLow (the low
\* branch alone would give LONG), and its date has no signal at all.
C23_Witness ==
  \E e \in Engines :
    /\ eng[e].runs >= 1
    /\ \E i \in LevelledBars(e) :
         LET c == candles[i]
             H == PreviousHighOf(e, i)
             L == PreviousLowOf(e, i)
         IN  /\ c.high > H /\ c.low < L
             /\ ~BodyAbove(c, H) /\ ~BodyBelow(c, H)
             /\ BodyAbove(c, L)
             /\ \A k \in 1..Len(eng[e].signals) :
                  eng[e].signals[k].date # getDateOnly(c.openTime)


\* The direction C24 gives candle c against the levels H and L.
ClaimedDirection(c, H, L) ==
  IF \/ c.high > H /\ BodyAbove(c, H)
     \/ c.high <= H /\ c.low < L /\ BodyAbove(c, L)
    THEN "LONG"
  ELSE IF \/ c.high > H /\ BodyBelow(c, H)
          \/ c.high <= H /\ c.low < L /\ BodyBelow(c, L)
    THEN "SHORT"
  ELSE "none"

\* C24: with non-null previous levels H and L the detector gives LONG exactly
\* when (high > H and open > H and close > H) or (high <= H and low < L and
\* open > L and close > L), SHORT exactly when (high > H and open < H and
\* close < H) or (high <= H and low < L and open < L and close < L), and no
\* direction in every other case; each signal has the direction so given to
\* its candle.
C24_Direction ==
  \A e \in Engines :
    /\ \A i \in LevelledBars(e) :
         detectBreakout(candles[i], Some(PreviousHighOf(e, i)),
                        Some(PreviousLowOf(e, i))).direction
           = ClaimedDirection(candles[i], PreviousHighOf(e, i), PreviousLowOf(e, i))
    /\ \A k \in 1..Len(eng[e].signals) :
         LET sg == eng[e].signals[k]
         IN  sg.direction = ClaimedDirection(sg.candle, sg.dailyHigh, sg.dailyLow)

\* C24 witness: one run has a candle that breaks previousHigh with its open
\* or close on previousHigh, a candle that breaks only previousLow with its
\* open or close on previousLow, neither being a signal's candle, and a
\* BREAKOUT_LOW signal.
C24_Witness ==
  \E e \in Engines :
    /\ eng[e].runs >= 1
    /\ \E i \in LevelledBars(e) :
         LET c == candles[i]
             H == PreviousHighOf(e, i)
         IN  /\ c.high > H /\ (c.open = H \/ c.close = H)
             /\ \A k \in 1..Len(eng[e].signals) : eng[e].signals[k].candle # c
    /\ \E i \in LevelledBars(e) :
         LET c == candles[i]
             H == PreviousHighOf(e, i)
             L == PreviousLowOf(e, i)
         IN  /\ c.high <= H /\ c.low < L /\ (c.open = L \/ c.close = L)
             /\ \A k \in 1..Len(eng[e].signals) : eng[e].signals[k].candle # c
    /\ \E k \in 1..Len(eng[e].signals) : eng[e].signals[k].type = "BREAKOUT_LOW"


\* C25: the entryPrice of every signal is the close of the candle that
\* produced it, and the trade opened from a signal has that close as its
\* entryPrice and the open time of that candle as its entryTime.
C25_EntryAtClose ==
  \A e \in Engines :
    /\ \A k \in 1..Len(eng[e].signals) :
         LET sg == eng[e].signals[k]
         IN  /\ \E i \in 1..Len(candles) : candles[i] = sg.candle
             /\ sg.entryPrice = sg.candle.close
    /\ \A k \in 1..Len(eng[e].simulator.trades) :
         LET t == eng[e].simulator.trades[k]
         IN  /\ t.entryPrice = t.signal.entryPrice * PriceScale(t.leverage)
             /\ t.signal.entryPrice = t.signal.candle.close
             /\ t.entryTime = t.signal.candle.openTime

\* C25 witness: a closed trade whose entry candle's close differs from its
\* open, high and low and from both previous-day levels.
C25_Witness ==
  \E e \in Engines :
    \E k \in 1..Len(eng[e].trades) :
      LET t == eng[e].trades[k]
          c == t.signal.candle
      IN  /\ c.close \notin {c.open, c.high, c.low, t.signal.dailyHigh, t.signal.dailyLow}
          /\ t.entryPrice = c.close * PriceScale(t.leverage)


\* The candles of the input that open on calendar date d (UTC offset 0).
BarsOn(d) == { i \in 1..Len(candles) : candles[i].openTime \div MinutesPerDay = d }
\* The dates on which some candle of the input opens.
InputDates == { candles[i].openTime \div MinutesPerDay : i \in 1..Len(candles) }

\* C26: after calculateDailyLevels the mapping has exactly the dates that have
\* candles; currentHigh is the greatest high and currentLow the least low of
\* the date's candles; previousHigh and previousLow are the currentHigh and
\* currentLow of the nearest earlier date that has candles, however many
\* calendar days lie between, and null for the earliest date; an empty input
\* gives the empty mapping and the run goes on.
C26_DailyLevels ==
  \A e \in Engines :
    eng[e].runs >= 1 =>
      LET lv == eng[e].dailyLevels
      IN  /\ DOMAIN lv = InputDates
          /\ candles = <<>> => (lv = <<>> /\ eng[e].pc # "failed")
          /\ \A d \in DOMAIN lv :
               /\ \E i \in BarsOn(d) : candles[i].high = lv[d].currentHigh
               /\ \E i \in BarsOn(d) : candles[i].low = lv[d].currentLow
               /\ \A i \in BarsOn(d) : /\ candles[i].high <= lv[d].currentHigh
                                       /\ candles[i].low >= lv[d].currentLow
               /\ (\A p \in DOMAIN lv : p >= d) =>
                    (lv[d].previousHigh = Null /\ lv[d].previousLow = Null)
               /\ \A p \in DOMAIN lv :
                    (p < d /\ \A q \in DOMAIN lv : ~(p < q /\ q < d)) =>
                      /\ lv[d].previousHigh = Some(lv[p].currentHigh)
                      /\ lv[d].previousLow = Some(lv[p].currentLow)

\* C26 witness: levels computed for an input in which one date has two
\* candles of different highs and lows, and two consecutive dates of the
\* mapping are more than one calendar day apart, the later one carrying the
\* earlier one's levels.
C26_Witness ==
  \E e \in Engines :
    LET lv == eng[e].dailyLevels
    IN  /\ eng[e].runs >= 1
        /\ \E d \in DOMAIN lv :
             \E i, j \in BarsOn(d) : /\ candles[i].high < candles[j].high
                                     /\ candles[i].low # candles[j].low
        /\ \E p, d \in DOMAIN lv :
             /\ p + 1 < d
             /\ \A q \in DOMAIN lv : ~(p < q /\ q < d)
             /\ lv[d].previousHigh = Some(lv[p].currentHigh)
             /\ lv[p].currentHigh # lv[d].currentHigh


\* C27 (as claimed): the calendar date the program gives a candle is the UTC
\* date of its open time, whatever the time zone of the process, and is the
\* date the exporter computes: the daily levels have exactly the UTC dates of
\* the input, and every signal is dated with the UTC date of its candle.
C27_Claimed ==
  \A e \in Engines :
    eng[e].runs >= 1 =>
      /\ \A i \in 1..Len(candles) :
           /\ getDateOnly(candles[i].openTime) = candles[i].openTime \div MinutesPerDay
           /\ getDateOnly(candles[i].openTime)
                = ResultsExporter_getDateOnly(candles[i].openTime)
      /\ DOMAIN eng[e].dailyLevels = InputDates
      /\ \A k \in 1..Len(eng[e].signals) :
           eng[e].signals[k].date
             = ResultsExporter_getDateOnly(eng[e].signals[k].candle.openTime)


\* C28: every trade of a simulator with positive leverage, stopLossPercent
\* and takeProfitPercent has stopLoss < entryPrice < takeProfit when LONG and
\* takeProfit < entryPrice < stopLoss when SHORT, and the closed trade carries
\* the stopLoss and takeProfit computed from its signal at entry.
C28_Bracket ==
  \A e \in Engines :
    LET sim == eng[e].simulator
    IN  (sim.leverage > 0 /\ sim.stopLossPercent > 0 /\ sim.takeProfitPercent > 0) =>
          \A k \in 1..Len(sim.trades) :
            LET t == sim.trades[k]
            IN  /\ t.entryPrice > 0
                /\ t.direction = "LONG" =>
                     (t.stopLoss < t.entryPrice /\ t.entryPrice < t.takeProfit)
                /\ t.direction = "SHORT" =>
                     (t.takeProfit < t.entryPrice /\ t.entryPrice < t.stopLoss)
                /\ t.direction \in {"LONG", "SHORT"}
                /\ t.stopLoss = OpenTrade(sim, t.signal).stopLoss
                /\ t.takeProfit = OpenTrade(sim, t.signal).takeProfit

\* C28 witness: one simulator has closed a LONG trade and a SHORT trade, one
\* of them at its stop loss and one at another price.
C28_Witness ==
  \E e \in Engines :
    LET ts == eng[e].simulator.trades
    IN  /\ \E k \in 1..Len(ts) : ts[k].direction = "LONG"
        /\ \E k \in 1..Len(ts) : ts[k].direction = "SHORT"
        /\ \E k \in 1..Len(ts) : ts[k].exitPrice = ts[k].stopLoss
        /\ \E k \in 1..Len(ts) : ts[k].exitPrice # ts[k].stopLoss


\* C29 (as claimed): the trades of one run never overlap in candle time: each
\* trade is closed no later than the open time of the next trade's entry
\* candle.
C29_Claimed ==
  \A e \in Engines :
    \A k \in 1..(Len(eng[e].trades) - 1) :
      eng[e].trades[k].exitTime <= eng[e].trades[k + 1].entryTime


\* C30 (as claimed): the balance of a simulator that has recorded trades is
\* initialCapital plus the sum of their resultUSD, to the cent; the totalReturn
\* of every returned run is that sum; in the daily results of every returned
\* run the first date's balanceBefore is initialCapital and every later
\* date's balanceBefore is the balanceAfter of the date before it; and
\* validateBalanceConsistency accepts them.
C30_Claimed ==
  \A e \in Engines :
    LET sim == eng[e].simulator
    IN  /\ sim.trades # <<>> =>
             sim.currentBalance
               = Round2Mills(1, sim.initialCapital
                                  + SumResultUSD(sim.trades, 1..Len(sim.trades)), 1)
        /\ \A r \in 1..Len(eng[e].results) :
             LET res == eng[e].results[r]
                 dr  == res.dailyResults
             IN  /\ res.tradingStats.totalReturn
                      = SumResultUSD(sim.trades, 1..res.tradingStats.totalTrades)
                 /\ res.balanceConsistent
                 /\ \A d \in DOMAIN dr :
                      LET earlier == { p \in DOMAIN dr : p < d }
                      IN  dr[d].balanceBefore =
                            IF earlier = {} THEN sim.initialCapital
                            ELSE dr[SetMax(earlier)].balanceAfter

====
